---- MODULE Spec2Model ----
(***************************************************************************)
(* Model of the DaiP chat room (src/App.tsx: App, ChatRoom, Login;         *)
(* src/services/aiService.ts; src/constants.ts; src/types.ts).             *)
(*                                                                         *)
(* Every browser tab runs one App.  A tab shows Login until its App state  *)
(* holds a user and a server, and then one ChatRoom instance.  ChatRoom    *)
(* talks to the other tabs over a BroadcastChannel named after the server. *)
(* A BroadcastChannel delivers a posted message to every other open        *)
(* channel object of the same name, never to the posting object, and a     *)
(* message queued for a channel that is closed meanwhile is discarded.     *)
(*                                                                         *)
(* Time is Date.now() in milliseconds, shared by the tabs of one browser.  *)
(* Strings are sequences of characters; the Chinese characters of the      *)
(* command prefixes are written in pinyin, one string per character.       *)
(* State updates made in one timer callback are rendered together.         *)
(***************************************************************************)
EXTENDS Integers, Sequences, FiniteSets, TLC

VARIABLES
    now,            \* Date.now()
    currentUser,    \* App state, per tab: <<>> (null) or <<user>>
    currentServer,  \* App state, per tab: <<>> (null) or <<server id>>
    loginTimers,    \* per tab: the pending setTimeout callbacks of App.handleLogin
    inst,           \* per tab: number of ChatRoom instances mounted so far
    messages,       \* ChatRoom state: the transcript
    onlineUsers,    \* ChatRoom state: the presence list
    isAiThinking,   \* ChatRoom state: the busy flag
    timers,         \* per tab: due times of heartbeatInterval and cleanupInterval
    movieTimers,    \* per tab: pending setTimeout callbacks of the movie bot
    aiCalls,        \* per tab: handleSendMessage calls suspended in sendMessageToAi
    inbox,          \* per tab: message events queued for the ChatRoom channel
    mountedAt,      \* history: when the tab's ChatRoom instance was mounted
    lastHeard,      \* history: per tab, when a presence envelope of an id last arrived
    aiLog,          \* history: the assistant calls issued, with the content sent
    faults,         \* history: per tab, exceptions no handler caught
    logins,         \* history: per tab, number of login submissions
    sends,          \* history: per tab, number of handleSendMessage calls
    last            \* history: the operation that made the last step

vars == <<now, currentUser, currentServer, loginTimers, inst, messages, onlineUsers,
          isAiThinking, timers, movieTimers, aiCalls, inbox, mountedAt, lastHeard,
          aiLog, faults, logins, sends, last>>

----
\* Bounds of the model.
MaxTime == 6000
MaxLogins == 2
MaxSends == 2
MaxPieces == 4
RoomMaxTime == 1500
ChatMaxTime == 2000
ParseMaxTime == 1600
DetachMaxTime == 2000
LobbyLogins == 3
LobbyMaxTime == 1500
NamesMaxTime == 2500
PeersMaxTime == 5000
MaxQueued == 1
RequestsMaxTime == 1500

Tabs == {"A", "B"}

----
\* Program constants.
HEARTBEAT_PERIOD == 1000
CLEANUP_PERIOD == 2000
STALE_AFTER == 3000
LOGIN_DELAY == 500
MOVIE_DELAY == 600
SERVER_LIST == <<"srv-1", "srv-2", "srv-3">>
BROADCAST_CHANNEL_NAME == "daip_chat_channel"
VIDEO_PARSER_URL == "https://jx.xmflv.com/?url="
\* '@电影', '播放', '@川小农', '你好'
MOVIE_PREFIX == <<"@", "dian", "ying">>
PLAY_WORD == <<"bo", "fang">>
AI_PREFIX == <<"@", "chuan", "xiao", "nong">>
DEFAULT_QUERY == <<"ni", "hao">>
\* the fallback replies of sendMessageToAi
API_ERROR_REPLY == <<"API Error">>
EMPTY_REPLY == <<"nothing to say">>
NETWORK_ERROR_REPLY == <<"network down">>
\* what String.prototype.trim and \s take for white space, and what . does not match
WhiteSpace == {" ", "\n"}
LineTerminators == {"\n"}

\* User actions happen on a grid of instants; timers fire exactly when due.
Step == LOGIN_DELAY
\* A second submission of the login form can follow the first within the delay.
ClickGap == LOGIN_DELAY \div 5

NoTimer == -1

----
\* Helpers.
Min(S) == CHOOSE x \in S : \A y \in S : x <= y

Range(s) == {s[i] : i \in 1..Len(s)}

None == <<>>
Some(x) == <<x>>

\* The step record kept in `last`.
Op(op, t, arg) == [op |-> op, tab |-> t, arg |-> arg]

----
\* App and ChatRoom: what a tab shows.

\* App renders ChatRoom iff both pieces of state are set
Mounted(t) == currentUser[t] # None /\ currentServer[t] # None

Self(t) == currentUser[t][1]

\* `${BROADCAST_CHANNEL_NAME}_${serverConfig.id}`
ChannelName(serverId) == <<BROADCAST_CHANNEL_NAME, "_", serverId>>

\* the tab's ChatRoom channel is open and named n
Listening(t, n) == Mounted(t) /\ ChannelName(currentServer[t][1]) = n

\* App.handleLogin: newUser (the random avatar and isOnline: true are left out)
NewUser(nickname, t) == [id |-> t, nickname |-> nickname, lastSeen |-> t]

\* the welcome message of the welcome effect
WelcomeMsg(user, serverId, t) ==
    [id |-> <<"system-welcome">>, senderId |-> <<"system">>,
     content |-> <<"welcome", user.nickname, serverId>>,
     type |-> "SYSTEM", videoUrl |-> None, timestamp |-> t, isAi |-> FALSE]

----
\* The topic channel.

Envelope(type, body, from) == [type |-> type, body |-> body, from |-> from]

\* channelRef.current.postMessage(env) by tab t, given the tabs `open` whose channel
\* object is open under the same name (t among them): the message is queued for
\* every one of them but the posting one
PostSelfEcho(ib, t, open, env) ==
    [u \in Tabs |-> IF u \in open THEN Append(ib[u], env) ELSE ib[u]]

PostMessage(ib, t, open, env) ==
    [u \in Tabs |-> IF u \in open /\ u # t THEN Append(ib[u], env) ELSE ib[u]]

----
\* The presence list.

\* prev.findIndex(u => u.id === id), 0 for -1
FindIndex(users, id) ==
    IF \E i \in 1..Len(users) : users[i].id = id
    THEN Min({i \in 1..Len(users) : users[i].id = id})
    ELSE 0

\* the updater of setOnlineUsers in onmessage, at receipt time t
UpsertSenderClock(users, user, t) ==
    LET existingIndex == FindIndex(users, user.id) IN
    IF existingIndex # 0
    THEN [users EXCEPT ![existingIndex] = user]
    ELSE Append(users, user)

UpsertAppendOnly(users, user, t) == Append(users, [user EXCEPT !.lastSeen = t])

Upsert(users, user, t) ==
    LET existingIndex == FindIndex(users, user.id) IN
    IF existingIndex # 0
    THEN [users EXCEPT ![existingIndex] = [user EXCEPT !.lastSeen = t]]
    ELSE Append(users, [user EXCEPT !.lastSeen = t])

\* the predicate of prev.filter in cleanupInterval
KeepUserInclusive(u, selfId, t) ==
    \/ u.id = selfId
    \/ (t - u.lastSeen) <= STALE_AFTER

KeepUserLate(u, selfId, t) ==
    \/ u.id = selfId
    \/ (t - u.lastSeen) < STALE_AFTER + HEARTBEAT_PERIOD

KeepUserEager(u, selfId, t) ==
    \/ u.id = selfId
    \/ (t - u.lastSeen) < HEARTBEAT_PERIOD

KeepUser(u, selfId, t) ==
    \/ u.id = selfId
    \/ (t - u.lastSeen) < STALE_AFTER

CleanupFilter(users, selfId, t) == SelectSeq(users, LAMBDA u : KeepUser(u, selfId, t))

----
\* Strings.

Max(S) == CHOOSE x \in S : \A y \in S : x >= y

\* String.prototype.startsWith
StartsWith(s, p) == Len(p) <= Len(s) /\ SubSeq(s, 1, Len(p)) = p

\* the occurrence of p in s at position i
OccursAt(s, p, i) == i >= 1 /\ i + Len(p) - 1 <= Len(s) /\ SubSeq(s, i, i + Len(p) - 1) = p

\* String.prototype.trim
RECURSIVE TrimStart(_)
TrimStart(s) == IF s # <<>> /\ Head(s) \in WhiteSpace THEN TrimStart(Tail(s)) ELSE s

RECURSIVE TrimEnd(_)
TrimEnd(s) ==
    IF s # <<>> /\ s[Len(s)] \in WhiteSpace THEN TrimEnd(SubSeq(s, 1, Len(s) - 1)) ELSE s

Trim(s) == TrimEnd(TrimStart(s))

\* s.replace(p, ''), p a string: the first occurrence goes
RemoveFirst(s, p) ==
    LET at == {i \in 1..Len(s) : OccursAt(s, p, i)} IN
    IF at = {} THEN s
    ELSE SubSeq(s, 1, Min(at) - 1) \o SubSeq(s, Min(at) + Len(p), Len(s))

\* s.replace(/p/g, ''): one scan from the left, resumed after each match
RECURSIVE RemoveAll(_, _)
RemoveAll(s, p) ==
    IF s = <<>> THEN <<>>
    ELSE IF OccursAt(s, p, 1) THEN RemoveAll(SubSeq(s, Len(p) + 1, Len(s)), p)
    ELSE <<Head(s)>> \o RemoveAll(Tail(s), p)

\* rawContent.replace('@电影', '').replace(/播放/g, '').trim()
RawUrlKeepPlay(rawContent) == Trim(RemoveFirst(rawContent, MOVIE_PREFIX))

RawUrl(rawContent) == Trim(RemoveAll(RemoveFirst(rawContent, MOVIE_PREFIX), PLAY_WORD))

\* rawContent.match(/^@川小农\s*(.*)$/): None for null, else Some(the capture).
\* \s* takes as much white space as leaves a rest that .* matches to the end.
AiMatchLazy(rawContent) ==
    IF ~StartsWith(rawContent, AI_PREFIX) THEN None
    ELSE LET rest == SubSeq(rawContent, Len(AI_PREFIX) + 1, Len(rawContent))
             splits == {k \in 0..Len(rest) :
                           /\ \A i \in 1..k : rest[i] \in WhiteSpace
                           /\ \A i \in (k + 1)..Len(rest) : rest[i] \notin LineTerminators}
         IN IF splits = {} THEN None
            ELSE Some(SubSeq(rest, Min(splits) + 1, Len(rest)))

AiMatch(rawContent) ==
    IF ~StartsWith(rawContent, AI_PREFIX) THEN None
    ELSE LET rest == SubSeq(rawContent, Len(AI_PREFIX) + 1, Len(rawContent))
             splits == {k \in 0..Len(rest) :
                           /\ \A i \in 1..k : rest[i] \in WhiteSpace
                           /\ \A i \in (k + 1)..Len(rest) : rest[i] \notin LineTerminators}
         IN IF splits = {} THEN None
            ELSE Some(SubSeq(rest, Max(splits) + 1, Len(rest)))

\* aiMatch[1] || '你好'
Query(aiMatch) == IF aiMatch[1] = <<>> THEN DEFAULT_QUERY ELSE aiMatch[1]

\* The bot logic of handleSendMessage: which bot the content sets off, and with what.
BotBranchAiFirst(rawContent) ==
    IF \E i \in 1..Len(rawContent) : OccursAt(rawContent, AI_PREFIX, i)
    THEN [bot |-> "ai", arg |-> DEFAULT_QUERY]
    ELSE IF StartsWith(rawContent, MOVIE_PREFIX) /\ RawUrl(rawContent) # <<>>
         THEN [bot |-> "movie", arg |-> RawUrl(rawContent)]
         ELSE [bot |-> "none", arg |-> <<>>]

BotBranch(rawContent) ==
    IF StartsWith(rawContent, MOVIE_PREFIX)
    THEN IF RawUrl(rawContent) # <<>>
         THEN [bot |-> "movie", arg |-> RawUrl(rawContent)]
         ELSE [bot |-> "none", arg |-> <<>>]
    ELSE IF AiMatch(rawContent) # None
         THEN [bot |-> "ai", arg |-> Query(AiMatch(rawContent))]
         ELSE [bot |-> "none", arg |-> <<>>]

----
\* sendMessageToAi.  The outcome of the request: fetch rejects ("throw"), or resolves
\* with response.ok false ("notok") or true ("ok"); response.json() rejects ("throw")
\* or resolves with null ("null"), with a body that has no choices[0].message.content
\* or an empty one ("nocontent"), or with a reply ("content").
AiOutcomes ==
    {[fetch |-> "throw", json |-> "throw"]}
    \cup [fetch : {"ok", "notok"}, json : {"throw", "null", "nocontent", "content"}]

AI_REPLY == <<"reply">>

\* sendMessageToAi without its catch block: a rejection goes to the caller
SendMessageToAiNoCatch(o) ==
    IF o.fetch = "throw" \/ o.json = "throw" THEN <<"rejected">>
    ELSE IF o.fetch = "notok" THEN API_ERROR_REPLY
    ELSE IF o.json = "null" THEN <<"rejected">>
    ELSE IF o.json = "nocontent" THEN EMPTY_REPLY
    ELSE AI_REPLY

SendMessageToAi(o) ==
    IF o.fetch = "throw" THEN NETWORK_ERROR_REPLY
    ELSE IF o.json = "throw" THEN NETWORK_ERROR_REPLY
    ELSE IF o.fetch = "notok" THEN API_ERROR_REPLY
    ELSE IF o.json = "null" THEN NETWORK_ERROR_REPLY
    ELSE IF o.json = "nocontent" THEN EMPTY_REPLY
    ELSE AI_REPLY

----
\* Messages.

UserMsg(user, rawContent, t) ==
    [id |-> <<t, "">>, senderId |-> <<"user", user.id>>, content |-> rawContent,
     type |-> "TEXT", videoUrl |-> None, timestamp |-> t, isAi |-> FALSE]

MovieBotMsg(rawUrl, t) ==
    [id |-> <<t, "-movie">>, senderId |-> <<"movie-bot">>,
     content |-> <<"playing">> \o rawUrl,
     type |-> "VIDEO", videoUrl |-> <<VIDEO_PARSER_URL>> \o rawUrl, timestamp |-> t,
     isAi |-> TRUE]

AiMsg(aiResponseText, t) ==
    [id |-> <<t, "-ai">>, senderId |-> <<"ai-bot">>, content |-> aiResponseText,
     type |-> "TEXT", videoUrl |-> None, timestamp |-> t, isAi |-> TRUE]

----
Init ==
    /\ now = 0
    /\ currentUser = [t \in Tabs |-> None]
    /\ currentServer = [t \in Tabs |-> None]
    /\ loginTimers = [t \in Tabs |-> <<>>]
    /\ inst = [t \in Tabs |-> 0]
    /\ messages = [t \in Tabs |-> <<>>]
    /\ onlineUsers = [t \in Tabs |-> <<>>]
    /\ isAiThinking = [t \in Tabs |-> FALSE]
    /\ timers = [t \in Tabs |-> [heartbeat |-> NoTimer, cleanup |-> NoTimer]]
    /\ movieTimers = [t \in Tabs |-> <<>>]
    /\ aiCalls = [t \in Tabs |-> <<>>]
    /\ inbox = [t \in Tabs |-> <<>>]
    /\ mountedAt = [t \in Tabs |-> 0]
    /\ lastHeard = [t \in Tabs |-> <<>>]
    /\ aiLog = <<>>
    /\ faults = [t \in Tabs |-> 0]
    /\ logins = [t \in Tabs |-> 0]
    /\ sends = [t \in Tabs |-> 0]
    /\ last = Op("Init", "A", <<>>)

\* the tabs whose ChatRoom channel is open under the name of server id srv, and t
OpenOn(t, srv) == {u \in Tabs : u = t \/ Listening(u, ChannelName(srv))}

----
\* App's nickname discovery effect: a channel named BROADCAST_CHANNEL_NAME, open as
\* long as the App lives, whose handler collects the nicknames of the USER_JOIN and
\* HEARTBEAT messages it gets.  It gets those posted on a channel of its own name.
DiscoveryName == <<BROADCAST_CHANNEL_NAME>>

\* existingNicknames of tab t: the nicknames announced on the discovery channel.
\* (The list only grows; as no ChatRoom channel has the discovery name, nothing is
\* ever announced there, and the nicknames heard so far are those heard now.)
ExistingNicknames(t) ==
    {Self(u).nickname : u \in {v \in Tabs \ {t} : Listening(v, DiscoveryName)}}

----
\* Login.handleLogin, then App.handleLogin: validate, build the user, and set the
\* App state after LOGIN_DELAY.  The form exists while the tab shows Login.
\* The form refuses an empty nickname and one in existingNicknames.
LoginWithin(t, nickname, server, max) ==
    /\ ~Mounted(t)
    /\ logins["A"] + logins["B"] < max
    /\ nickname # ""
    /\ nickname \notin ExistingNicknames(t)
    /\ loginTimers' = [loginTimers EXCEPT ![t] =
            Append(@, [due |-> now + LOGIN_DELAY, user |-> NewUser(nickname, now),
                       server |-> server])]
    /\ logins' = [logins EXCEPT ![t] = @ + 1]
    /\ last' = Op("Login", t, <<>>)
    /\ UNCHANGED <<now, currentUser, currentServer, inst, messages, onlineUsers,
                   isAiThinking, timers, movieTimers, aiCalls, inbox, mountedAt,
                   lastHeard, aiLog, faults, sends>>

Login(t, nickname, server) == LoginWithin(t, nickname, server, MaxLogins)

\* The setTimeout callback of App.handleLogin: setCurrentServer, setCurrentUser, and
\* the render they cause.  A tab that showed Login mounts a ChatRoom (initial state,
\* network effect, welcome effect).  A tab that already showed a ChatRoom keeps the
\* instance and its state: the network effect is cleaned up and run again for the
\* new user and channel name, and the welcome effect runs again iff the nickname or
\* the server changed.
LoginTimerFire(t) ==
    /\ loginTimers[t] # <<>>
    /\ Head(loginTimers[t]).due = now
    /\ LET cb == Head(loginTimers[t])
           fresh == ~Mounted(t)
           welcome == fresh \/ Self(t).nickname # cb.user.nickname
                            \/ currentServer[t][1] # cb.server
       IN
        /\ loginTimers' = [loginTimers EXCEPT ![t] = Tail(@)]
        /\ currentServer' = [currentServer EXCEPT ![t] = Some(cb.server)]
        /\ currentUser' = [currentUser EXCEPT ![t] = Some(cb.user)]
        /\ inst' = [inst EXCEPT ![t] = IF fresh THEN @ + 1 ELSE @]
        /\ onlineUsers' = [onlineUsers EXCEPT ![t] = IF fresh THEN <<cb.user>> ELSE @]
        /\ isAiThinking' = [isAiThinking EXCEPT ![t] = IF fresh THEN FALSE ELSE @]
        /\ messages' = [messages EXCEPT ![t] =
                IF welcome THEN <<WelcomeMsg(cb.user, cb.server, now)>> ELSE @]
        /\ mountedAt' = [mountedAt EXCEPT ![t] = IF fresh THEN now ELSE @]
        /\ lastHeard' = [lastHeard EXCEPT ![t] = IF fresh THEN <<>> ELSE @]
        \* the old channel, if any, is closed; the new one announces the user
        /\ inbox' = PostMessage([inbox EXCEPT ![t] = <<>>], t, OpenOn(t, cb.server),
                                Envelope("USER_JOIN", cb.user, t))
        /\ timers' = [timers EXCEPT ![t] = [heartbeat |-> now + HEARTBEAT_PERIOD,
                                            cleanup |-> now + CLEANUP_PERIOD]]
        /\ last' = Op(IF fresh THEN "Mount" ELSE "Rerender", t, <<>>)
    /\ UNCHANGED <<now, movieTimers, aiCalls, aiLog, faults, logins, sends>>

\* the cleanup of the network effect: clearInterval of both loops
ClearHeartbeatOnly(tm) == [tm EXCEPT !.heartbeat = NoTimer]

ClearIntervals(tm) == [heartbeat |-> NoTimer, cleanup |-> NoTimer]

\* App.handleLogout: the ChatRoom is unmounted; its network effect is cleaned up
\* (both intervals cleared, the channel closed) and its state is gone.  Pending
\* movie timeouts and assistant calls of the instance are not cancelled.
Logout(t) ==
    /\ Mounted(t)
    /\ currentUser' = [currentUser EXCEPT ![t] = None]
    /\ currentServer' = [currentServer EXCEPT ![t] = None]
    /\ timers' = [timers EXCEPT ![t] = ClearIntervals(@)]
    /\ inbox' = [inbox EXCEPT ![t] = <<>>]
    /\ messages' = [messages EXCEPT ![t] = <<>>]
    /\ onlineUsers' = [onlineUsers EXCEPT ![t] = <<>>]
    /\ isAiThinking' = [isAiThinking EXCEPT ![t] = FALSE]
    /\ lastHeard' = [lastHeard EXCEPT ![t] = <<>>]
    /\ last' = Op("Logout", t, <<>>)
    /\ UNCHANGED <<now, loginTimers, inst, movieTimers, aiCalls, mountedAt, aiLog,
                   faults, logins, sends>>

\* heartbeatInterval's callback
Heartbeat(t) ==
    /\ Mounted(t)
    /\ timers[t].heartbeat = now
    /\ inbox' = PostMessage(inbox, t, OpenOn(t, currentServer[t][1]),
                            Envelope("HEARTBEAT", [Self(t) EXCEPT !.lastSeen = now], t))
    /\ timers' = [timers EXCEPT ![t].heartbeat = now + HEARTBEAT_PERIOD]
    /\ last' = Op("Heartbeat", t, <<>>)
    /\ UNCHANGED <<now, currentUser, currentServer, loginTimers, inst, messages,
                   onlineUsers, isAiThinking, movieTimers, aiCalls, mountedAt,
                   lastHeard, aiLog, faults, logins, sends>>

\* cleanupInterval's callback
Cleanup(t) ==
    /\ Mounted(t)
    /\ timers[t].cleanup = now
    /\ onlineUsers' = [onlineUsers EXCEPT ![t] = CleanupFilter(@, Self(t).id, now)]
    /\ timers' = [timers EXCEPT ![t].cleanup = now + CLEANUP_PERIOD]
    /\ last' = Op("Cleanup", t, <<>>)
    /\ UNCHANGED <<now, currentUser, currentServer, loginTimers, inst, messages,
                   isAiThinking, movieTimers, aiCalls, inbox, mountedAt, lastHeard,
                   aiLog, faults, logins, sends>>

\* onmessage: the branch taken for the type of the message event's data
BranchElseMessage(type) ==
    IF type \in {"USER_JOIN", "HEARTBEAT"} THEN "presence" ELSE "message"

Branch(type) ==
    IF type = "NEW_MESSAGE" THEN "message"
    ELSE IF type \in {"USER_JOIN", "HEARTBEAT"} THEN "presence"
    ELSE "none"

\* the updater of setMessages in onmessage
ReceivePrepend(prev, message) == <<message>> \o prev

Receive(prev, message) == Append(prev, message)

\* channelRef.current.onmessage, for the oldest queued message event
Deliver(t) ==
    /\ Mounted(t)
    /\ inbox[t] # <<>>
    /\ LET data == Head(inbox[t])
           branch == Branch(data.type)
       IN
        /\ inbox' = [inbox EXCEPT ![t] = Tail(@)]
        /\ messages' = [messages EXCEPT ![t] =
                IF branch = "message" THEN Receive(@, data.body) ELSE @]
        /\ onlineUsers' = [onlineUsers EXCEPT ![t] =
                IF branch = "presence" THEN Upsert(@, data.body, now) ELSE @]
        /\ lastHeard' = [lastHeard EXCEPT ![t] =
                IF branch = "presence" THEN (data.body.id :> now) @@ @ ELSE @]
        \* history: the message brought back a user heard of before and not listed,
        \* or it was of a type the handler has no branch for
        /\ last' = Op("Deliver", t,
                      IF /\ branch = "presence"
                         /\ data.body.id \in DOMAIN lastHeard[t]
                         /\ FindIndex(onlineUsers[t], data.body.id) = 0
                      THEN <<"returned">>
                      ELSE IF branch = "none" THEN <<"ignored">> ELSE <<>>)
    /\ UNCHANGED <<now, currentUser, currentServer, loginTimers, inst, isAiThinking,
                   timers, movieTimers, aiCalls, mountedAt, aiLog, faults, logins,
                   sends>>

----
\* The message bus and the bots.

\* the ChatRoom instance that started a callback is still the one on screen
Live(t, cb) == Mounted(t) /\ cb.inst = inst[t]

\* handleSendMessage with inputText in the text area
Send(t, inputText) ==
    /\ Mounted(t)
    /\ sends["A"] + sends["B"] < MaxSends
    /\ sends' = [sends EXCEPT ![t] = @ + 1]
    /\ LET rawContent == Trim(inputText)
           newMessage == UserMsg(Self(t), rawContent, now)
           branch == BotBranch(rawContent)
       IN
        IF rawContent = <<>>
        THEN /\ last' = Op("SendNothing", t, <<>>)
             /\ UNCHANGED <<messages, inbox, movieTimers, aiCalls, isAiThinking, aiLog>>
        ELSE /\ messages' = [messages EXCEPT ![t] = Append(@, newMessage)]
             /\ inbox' = PostMessage(inbox, t, OpenOn(t, currentServer[t][1]),
                                     Envelope("NEW_MESSAGE", newMessage, t))
             /\ movieTimers' = [movieTimers EXCEPT ![t] =
                    IF branch.bot = "movie"
                    THEN Append(@, [due |-> now + MOVIE_DELAY, rawUrl |-> branch.arg,
                                    inst |-> inst[t]])
                    ELSE @]
             /\ isAiThinking' = [isAiThinking EXCEPT ![t] =
                    IF branch.bot = "ai" THEN TRUE ELSE @]
             /\ aiCalls' = [aiCalls EXCEPT ![t] =
                    IF branch.bot = "ai"
                    THEN Append(@, [query |-> branch.arg, inst |-> inst[t]])
                    ELSE @]
             /\ aiLog' = IF branch.bot = "ai"
                         THEN Append(aiLog, [tab |-> t, content |-> rawContent,
                                             query |-> branch.arg])
                         ELSE aiLog
             /\ last' = Op("Send", t, rawContent)
    /\ UNCHANGED <<now, currentUser, currentServer, loginTimers, inst, onlineUsers,
                   timers, mountedAt, lastHeard, faults, logins>>

\* The setTimeout callback of the movie bot.  After the instance was unmounted,
\* setMessages does nothing and postMessage on the closed channel throws.
MovieFire(t) ==
    /\ movieTimers[t] # <<>>
    /\ Head(movieTimers[t]).due = now
    /\ LET cb == Head(movieTimers[t])
           movieBotMsg == MovieBotMsg(cb.rawUrl, now)
       IN
        /\ movieTimers' = [movieTimers EXCEPT ![t] = Tail(@)]
        /\ IF Live(t, cb)
           THEN /\ messages' = [messages EXCEPT ![t] = Append(@, movieBotMsg)]
                /\ inbox' = PostMessage(inbox, t, OpenOn(t, currentServer[t][1]),
                                        Envelope("NEW_MESSAGE", movieBotMsg, t))
                /\ UNCHANGED faults
           ELSE /\ faults' = [faults EXCEPT ![t] = @ + 1]
                /\ UNCHANGED <<messages, inbox>>
        /\ last' = Op("MovieFire", t, IF Live(t, cb) THEN <<"published">> ELSE <<"discarded">>)
    /\ UNCHANGED <<now, currentUser, currentServer, loginTimers, inst, onlineUsers,
                   isAiThinking, timers, aiCalls, mountedAt, lastHeard, aiLog, logins,
                   sends>>

\* the finally block of the assistant branch, given the flag and the outcome
FinallyOnSuccessOnly(busy, o) == IF SendMessageToAi(o) = AI_REPLY THEN FALSE ELSE busy

Finally(busy, o) == FALSE

\* handleSendMessage resumed when sendMessageToAi settles with outcome o, for the
\* i-th suspended call.  After the instance was unmounted, the state setters do
\* nothing and postMessage on the closed channel throws out of the handler.
AiDone(t, i, o) ==
    /\ i \in 1..Len(aiCalls[t])
    /\ LET cb == aiCalls[t][i]
           aiMessage == AiMsg(SendMessageToAi(o), now)
       IN
        /\ aiCalls' = [aiCalls EXCEPT ![t] =
                SubSeq(@, 1, i - 1) \o SubSeq(@, i + 1, Len(@))]
        /\ IF Live(t, cb)
           THEN /\ messages' = [messages EXCEPT ![t] = Append(@, aiMessage)]
                /\ inbox' = PostMessage(inbox, t, OpenOn(t, currentServer[t][1]),
                                        Envelope("NEW_MESSAGE", aiMessage, t))
                /\ isAiThinking' = [isAiThinking EXCEPT ![t] = Finally(@, o)]
                /\ UNCHANGED faults
           ELSE /\ faults' = [faults EXCEPT ![t] = @ + 1]
                /\ UNCHANGED <<messages, inbox, isAiThinking>>
        /\ last' = Op("AiDone", t, IF Live(t, cb) THEN <<"published">> ELSE <<"discarded">>)
    /\ UNCHANGED <<now, currentUser, currentServer, loginTimers, inst, onlineUsers,
                   timers, movieTimers, mountedAt, lastHeard, aiLog, logins, sends>>

----
\* The passage of time.

\* the due times of every pending timer
Due ==
    UNION {
        {loginTimers[t][i].due : i \in 1..Len(loginTimers[t])}
        \cup {movieTimers[t][i].due : i \in 1..Len(movieTimers[t])}
        \cup ({timers[t].heartbeat, timers[t].cleanup} \ {NoTimer})
        : t \in Tabs}

\* a tab shows Login with one submission under way
Submitting(t) == ~Mounted(t) /\ Len(loginTimers[t]) = 1

\* Time moves to the next grid instant or to the next due timer, whichever is first,
\* once every timer due now has fired and every queued message event was handled;
\* or by ClickGap while a login form was submitted once.  Time stops at `until`.
AdvanceUntil(until) ==
    /\ \A d \in Due : d > now
    /\ \A t \in Tabs : inbox[t] = <<>>
    /\ \/ now' = Min(Due \cup {(now \div Step) * Step + Step})
       \/ /\ \E t \in Tabs : Submitting(t)
          /\ \A d \in Due : d > now + ClickGap
          /\ now' = now + ClickGap
    /\ now' <= until
    /\ last' = Op("Advance", "A", <<>>)
    /\ UNCHANGED <<currentUser, currentServer, loginTimers, inst, messages,
                   onlineUsers, isAiThinking, timers, movieTimers, aiCalls, inbox,
                   mountedAt, lastHeard, aiLog, faults, logins, sends>>

Advance == AdvanceUntil(MaxTime)

----
\* The presence protocol: logins, logouts, the two loops and delivery.
NicknameOf == [t \in Tabs |-> IF t = "A" THEN "Ann" ELSE "Bob"]

Next ==
    \/ \E t \in Tabs : Login(t, NicknameOf[t], SERVER_LIST[1])
    \/ \E t \in Tabs : LoginTimerFire(t)
    \/ \E t \in Tabs : Logout(t)
    \/ \E t \in Tabs : Heartbeat(t)
    \/ \E t \in Tabs : Cleanup(t)
    \/ \E t \in Tabs : Deliver(t)
    \/ Advance

Spec == Init /\ [][Next]_vars

----
\* The chat of two attached sessions.  The state after Ann logged in at 0 in tab A
\* and Bob at 500 in tab B, both on the first server: B's ChatRoom has just been
\* mounted and its USER_JOIN is on its way to A.
Ann == NewUser("Ann", 0)
Bob == NewUser("Bob", LOGIN_DELAY)

InitAttached ==
    /\ now = 2 * LOGIN_DELAY
    /\ currentUser = [t \in Tabs |-> IF t = "A" THEN Some(Ann) ELSE Some(Bob)]
    /\ currentServer = [t \in Tabs |-> Some(SERVER_LIST[1])]
    /\ loginTimers = [t \in Tabs |-> <<>>]
    /\ inst = [t \in Tabs |-> 1]
    /\ messages = [t \in Tabs |->
            IF t = "A" THEN <<WelcomeMsg(Ann, SERVER_LIST[1], LOGIN_DELAY)>>
            ELSE <<WelcomeMsg(Bob, SERVER_LIST[1], 2 * LOGIN_DELAY)>>]
    /\ onlineUsers = [t \in Tabs |-> IF t = "A" THEN <<Ann>> ELSE <<Bob>>]
    /\ isAiThinking = [t \in Tabs |-> FALSE]
    /\ timers = [t \in Tabs |->
            IF t = "A" THEN [heartbeat |-> LOGIN_DELAY + HEARTBEAT_PERIOD,
                             cleanup |-> LOGIN_DELAY + CLEANUP_PERIOD]
            ELSE [heartbeat |-> 2 * LOGIN_DELAY + HEARTBEAT_PERIOD,
                  cleanup |-> 2 * LOGIN_DELAY + CLEANUP_PERIOD]]
    /\ movieTimers = [t \in Tabs |-> <<>>]
    /\ aiCalls = [t \in Tabs |-> <<>>]
    /\ inbox = [t \in Tabs |->
            IF t = "A" THEN <<Envelope("USER_JOIN", Bob, "B")>> ELSE <<>>]
    /\ mountedAt = [t \in Tabs |-> IF t = "A" THEN LOGIN_DELAY ELSE 2 * LOGIN_DELAY]
    /\ lastHeard = [t \in Tabs |-> <<>>]
    /\ aiLog = <<>>
    /\ faults = [t \in Tabs |-> 0]
    /\ logins = [t \in Tabs |-> 1]
    /\ sends = [t \in Tabs |-> 0]
    /\ last = Op("Mount", "B", <<>>)

\* what the users type: plain text, the movie command with a target (the
\* assistant's name) and with none, and the assistant command
ChatInputs ==
    { <<"x">>,
      MOVIE_PREFIX \o <<" ">> \o AI_PREFIX,
      MOVIE_PREFIX \o <<" ">> \o PLAY_WORD,
      AI_PREFIX \o <<" ", "x">> }

NextChat ==
    \/ \E t \in Tabs, c \in ChatInputs : Send(t, c)
    \/ \E t \in Tabs : MovieFire(t)
    \/ \E t \in Tabs, o \in AiOutcomes : \E i \in 1..Len(aiCalls[t]) : AiDone(t, i, o)
    \/ \E t \in Tabs : Deliver(t)
    \/ \E t \in Tabs : Heartbeat(t)
    \/ AdvanceUntil(ChatMaxTime)

SpecChat == InitAttached /\ [][NextChat]_vars

\* the same, with every assistant call settling in the end
AiSettles(t) == \E o \in AiOutcomes : \E i \in 1..Len(aiCalls[t]) : AiDone(t, i, o)

SpecChatFair == SpecChat /\ \A t \in Tabs : WF_vars(AiSettles(t))

----
\* The room from login on: sessions come, announce themselves, and talk.
NextRoom ==
    \/ \E t \in Tabs : Login(t, NicknameOf[t], SERVER_LIST[1])
    \/ \E t \in Tabs : LoginTimerFire(t)
    \/ \E t \in Tabs : Send(t, <<"x">>)
    \/ \E t \in Tabs : Heartbeat(t)
    \/ \E t \in Tabs : Deliver(t)
    \/ AdvanceUntil(RoomMaxTime)

SpecRoom == Init /\ [][NextRoom]_vars

----
\* Leaving with a bot at work: the two attached sessions send bot commands and log
\* out while the movie timeout or the assistant call is still pending.
DetachInputs ==
    { MOVIE_PREFIX \o <<" ">> \o AI_PREFIX,
      AI_PREFIX \o <<" ", "x">> }

NextDetach ==
    \/ \E t \in Tabs, c \in DetachInputs : Send(t, c)
    \/ \E t \in Tabs : Logout(t)
    \/ \E t \in Tabs : MovieFire(t)
    \/ \E t \in Tabs, o \in AiOutcomes : \E i \in 1..Len(aiCalls[t]) : AiDone(t, i, o)
    \/ \E t \in Tabs : Deliver(t)
    \/ AdvanceUntil(DetachMaxTime)

SpecDetach == InitAttached /\ [][NextDetach]_vars

----
\* Two servers: the sessions choose between the first two of the list.
LobbyServers == {SERVER_LIST[1], SERVER_LIST[2]}

NextLobby ==
    \/ \E t \in Tabs, srv \in LobbyServers : LoginWithin(t, NicknameOf[t], srv, LobbyLogins)
    \/ \E t \in Tabs : LoginTimerFire(t)
    \/ \E t \in Tabs : Send(t, <<"x">>)
    \/ \E t \in Tabs : Heartbeat(t)
    \/ \E t \in Tabs : Deliver(t)
    \/ AdvanceUntil(LobbyMaxTime)

SpecLobby == Init /\ [][NextLobby]_vars

----
\* One nickname for two: both tabs log in as Ann, on the first server.
NextNames ==
    \/ \E t \in Tabs : Login(t, "Ann", SERVER_LIST[1])
    \/ \E t \in Tabs : LoginTimerFire(t)
    \/ \E t \in Tabs : Heartbeat(t)
    \/ \E t \in Tabs : Deliver(t)
    \/ AdvanceUntil(NamesMaxTime)

SpecNames == Init /\ [][NextNames]_vars

----
\* Peers that come and go: Ann's session in tab A, and sessions in tabs that are
\* not modelled one by one (a background tab's intervals are throttled, so its
\* heartbeats may pause for long and resume under the same user id).  Such a
\* session posts its USER_JOIN, with the user as made at its login, or a HEARTBEAT,
\* with lastSeen of the moment, on the channel of the first server.
PeerLogins == {100, 200}

PeerUser(id) == NewUser("Eve", id)

PeerAnnounce(type, id) ==
    /\ \E u \in Tabs : Listening(u, ChannelName(SERVER_LIST[1]))
    /\ \A u \in Tabs : Len(inbox[u]) < MaxQueued
    /\ now > id
    /\ inbox' = [u \in Tabs |->
            IF Listening(u, ChannelName(SERVER_LIST[1]))
            THEN Append(inbox[u],
                        Envelope(type, IF type = "HEARTBEAT"
                                       THEN [PeerUser(id) EXCEPT !.lastSeen = now]
                                       ELSE PeerUser(id), "peer"))
            ELSE inbox[u]]
    /\ last' = Op("PeerAnnounce", "peer", <<>>)
    /\ UNCHANGED <<now, currentUser, currentServer, loginTimers, inst, messages,
                   onlineUsers, isAiThinking, timers, movieTimers, aiCalls, mountedAt,
                   lastHeard, aiLog, faults, logins, sends>>

NextPeers ==
    \/ Login("A", NicknameOf["A"], SERVER_LIST[1])
    \/ LoginTimerFire("A")
    \/ \E type \in {"USER_JOIN", "HEARTBEAT"}, id \in PeerLogins : PeerAnnounce(type, id)
    \/ Deliver("A")
    \/ Heartbeat("A")
    \/ Cleanup("A")
    \/ AdvanceUntil(PeersMaxTime)

SpecPeers == Init /\ [][NextPeers]_vars

----
\* Requests for the users: the two attached sessions, the first perhaps waiting
\* for the assistant, get a REQUEST_USERS message event as App posts it on its
\* discovery channel ({ type: 'REQUEST_USERS', requesterId: 'guest' }).
PeerRequest ==
    /\ \E u \in Tabs : Listening(u, ChannelName(SERVER_LIST[1]))
    /\ \A u \in Tabs : Len(inbox[u]) < MaxQueued
    /\ inbox' = [u \in Tabs |->
            IF Listening(u, ChannelName(SERVER_LIST[1]))
            THEN Append(inbox[u], Envelope("REQUEST_USERS", [requesterId |-> "guest"], "peer"))
            ELSE inbox[u]]
    /\ last' = Op("PeerRequest", "peer", <<>>)
    /\ UNCHANGED <<now, currentUser, currentServer, loginTimers, inst, messages,
                   onlineUsers, isAiThinking, timers, movieTimers, aiCalls, mountedAt,
                   lastHeard, aiLog, faults, logins, sends>>

NextRequests ==
    \/ PeerRequest
    \/ Send("A", AI_PREFIX \o <<" ", "x">>)
    \/ \E o \in AiOutcomes : \E i \in 1..Len(aiCalls["A"]) : AiDone("A", i, o)
    \/ \E t \in Tabs : Deliver(t)
    \/ \E t \in Tabs : Heartbeat(t)
    \/ AdvanceUntil(RequestsMaxTime)

SpecRequests == InitAttached /\ [][NextRequests]_vars

----
\* The command parsing: one message typed in tab A, of every text made of a head
\* and up to MaxPieces pieces.
Heads == {<<>>, MOVIE_PREFIX, AI_PREFIX}
Pieces == {PLAY_WORD, <<" ">>, <<"\n">>, <<"x">>, <<"bo">>, <<"fang">>}

RECURSIVE Bodies(_)
Bodies(n) ==
    IF n = 0 THEN {<<>>}
    ELSE Bodies(n - 1) \cup {b \o p : b \in Bodies(n - 1), p \in Pieces}

ParseInputs == {h \o b : h \in Heads, b \in Bodies(MaxPieces)}

SendOnce == sends["A"] + sends["B"] = 0 /\ \E c \in ParseInputs : Send("A", c)

NextParse ==
    \/ SendOnce
    \/ \E t \in Tabs : MovieFire(t)
    \/ \E t \in Tabs : Deliver(t)
    \/ \E t \in Tabs : Heartbeat(t)
    \/ AdvanceUntil(ParseMaxTime)

SpecParse == InitAttached /\ [][NextParse]_vars

----
\* Presence: what the claims speak of.

\* the ids in the tab's presence list
OnlineIds(t) == {onlineUsers[t][i].id : i \in 1..Len(onlineUsers[t])}

\* the ids of the tab's presence list other than its own user's
PeerIds(t) == OnlineIds(t) \ {Self(t).id}

\* for how long the tab's ChatRoom has received no USER_JOIN or HEARTBEAT of id
Silence(t, id) ==
    now - (IF id \in DOMAIN lastHeard[t] THEN lastHeard[t][id] ELSE mountedAt[t])

\* C1: in every state of an attached session the presence list holds an entry with
\* the id of the session's own user.
C1_SelfAlwaysPresent ==
    \A t \in Tabs : Mounted(t) => Self(t).id \in OnlineIds(t)

\* C2: right after a cleanup tick, no peer is left in the presence list for which
\* no USER_JOIN or HEARTBEAT has been received for STALE_AFTER or longer.
C2_StalePeerEvicted ==
    last.op = "Cleanup" =>
        \A id \in PeerIds(last.tab) : Silence(last.tab, id) < STALE_AFTER

\* a cleanup tick has just removed a peer that was silent for STALE_AFTER or longer
C2_Witness ==
    /\ last.op = "Cleanup"
    /\ \E id \in DOMAIN lastHeard[last.tab] :
          /\ id # Self(last.tab).id
          /\ id \notin OnlineIds(last.tab)
          /\ Silence(last.tab, id) >= STALE_AFTER

\* C3 as the specification has it: 3.5 s after the last USER_JOIN or HEARTBEAT
\* received for a peer, the peer is no longer in the presence list.
C3_GoneAfter3500 ==
    \A t \in Tabs : Mounted(t) =>
        \A id \in PeerIds(t) \cap DOMAIN lastHeard[t] : now - lastHeard[t][id] < 3500

\* C3, amended: STALE_AFTER + CLEANUP_PERIOD (5 s) after the last USER_JOIN or
\* HEARTBEAT received for a peer, the peer is no longer in the presence list.
C3_GoneAfterTtlPlusPeriod ==
    \A t \in Tabs : Mounted(t) =>
        \A id \in PeerIds(t) \cap DOMAIN lastHeard[t] :
            now - lastHeard[t][id] < STALE_AFTER + CLEANUP_PERIOD

\* a peer was last heard 5 s ago or more and is gone
C3_Witness ==
    \E t \in Tabs : Mounted(t) /\
        \E id \in DOMAIN lastHeard[t] :
            /\ id # Self(t).id
            /\ id \notin OnlineIds(t)
            /\ now - lastHeard[t][id] >= STALE_AFTER + CLEANUP_PERIOD

\* C4: the presence list holds at most one entry per user id, and a USER_JOIN or
\* HEARTBEAT received for a listed id leaves the list as long as it was and the
\* entry of that id with lastSeen at the time of receipt.
C4_OneEntryPerId ==
    /\ \A t \in Tabs : Cardinality(OnlineIds(t)) = Len(onlineUsers[t])
    /\ \A t \in Tabs : \A id \in DOMAIN lastHeard[t] :
          lastHeard[t][id] = now /\ last.op = "Deliver" /\ last.tab = t
            => \E i \in 1..Len(onlineUsers[t]) :
                  onlineUsers[t][i].id = id /\ onlineUsers[t][i].lastSeen = now

\* a HEARTBEAT was just received for an id that was heard before
C4_Witness ==
    \E t \in Tabs :
        /\ last.op = "Deliver" /\ last.tab = t
        /\ Len(onlineUsers[t]) = 2
        /\ \E i \in 1..2 : /\ onlineUsers[t][i].id # Self(t).id
                           /\ onlineUsers[t][i].lastSeen = now
                           /\ mountedAt[t] + HEARTBEAT_PERIOD < now

----
\* The bots: what the claims speak of.

\* the last step was handleSendMessage in tab t with a movie command
SentMovieCommand(t) ==
    last.op = "Send" /\ last.tab = t /\ StartsWith(last.arg, MOVIE_PREFIX)

\* C5: a send whose content starts with the movie prefix never takes the assistant
\* path: the step issues no assistant call, leaves the busy flag as it was, and no
\* call is on record for such a content, so that no assistant message comes of it.
C5_MovieCommandExclusive ==
    [][\A t \in Tabs : SentMovieCommand(t)' =>
            /\ aiCalls' = aiCalls
            /\ isAiThinking' = isAiThinking
            /\ aiLog' = aiLog
            /\ \A i \in 1..Len(aiLog) : ~StartsWith(aiLog[i].content, MOVIE_PREFIX)]_vars

\* a movie command with no target was just sent: no call, no flag, no bot at work
C5_Witness ==
    \E t \in Tabs :
        /\ SentMovieCommand(t)
        /\ last.arg = MOVIE_PREFIX \o <<" ">> \o PLAY_WORD
        /\ aiCalls[t] = <<>> /\ movieTimers[t] = <<>> /\ ~isAiThinking[t]

\* The target of a movie command, said without the scan: the content after the
\* prefix, less the characters of every occurrence of the play word, trimmed.
InPlayWord(s, i) == OccursAt(s, PLAY_WORD, i) \/ OccursAt(s, PLAY_WORD, i - 1)

RECURSIVE Pick(_, _, _)
\* the characters of s from position i on that are not in `out`
Pick(s, i, out) ==
    IF i > Len(s) THEN <<>>
    ELSE (IF i \in out THEN <<>> ELSE <<s[i]>>) \o Pick(s, i + 1, out)

Target(content) ==
    LET rest == SubSeq(content, Len(MOVIE_PREFIX) + 1, Len(content))
        kept == Pick(rest, 1, {i \in 1..Len(rest) : InPlayWord(rest, i)})
        inner == {i \in 1..Len(kept) : kept[i] \notin WhiteSpace}
    IN IF inner = {} THEN <<>> ELSE SubSeq(kept, Min(inner), Max(inner))

\* the messages of the movie bot, in a transcript or on their way to one
MovieBotMsgs ==
    UNION {{messages[t][i] : i \in 1..Len(messages[t])} : t \in Tabs}
    \cup UNION {{inbox[t][i].body : i \in {j \in 1..Len(inbox[t]) :
                                          inbox[t][j].type = "NEW_MESSAGE"}} : t \in Tabs}

VideoMsgs == {m \in MovieBotMsgs : m.type = "VIDEO"}

\* the one message the user of tab A sent, if any
SentByA == {messages["A"][i].content : i \in {j \in 1..Len(messages["A"]) :
                                               messages["A"][j].senderId = <<"user", Ann.id>>}}

\* C6: for a content that starts with the movie prefix, the bot works on the target
\* as defined above: if the target is empty no movie timer is set and no video
\* message exists anywhere; else the pending timer, and then the video message,
\* carry that target.  The example of the specification comes out as it says.
C6_MovieTarget ==
    /\ RawUrl(MOVIE_PREFIX \o <<" ">> \o PLAY_WORD \o <<" ", "x">>) = <<"x">>
    /\ \A c \in SentByA : StartsWith(c, MOVIE_PREFIX) =>
          IF Target(c) = <<>>
          THEN movieTimers["A"] = <<>> /\ VideoMsgs = {}
          ELSE \/ /\ Len(movieTimers["A"]) = 1
                  /\ movieTimers["A"][1].rawUrl = Target(c)
                  /\ VideoMsgs = {}
               \/ /\ movieTimers["A"] = <<>>
                  /\ \E m \in VideoMsgs : m.videoUrl = <<VIDEO_PARSER_URL>> \o Target(c)
                  /\ \A m \in VideoMsgs : m.videoUrl = <<VIDEO_PARSER_URL>> \o Target(c)

\* the movie command with a play word that the removal of another brings together
\* was sent, and the bot's message for what is left of it has reached tab B
C6_Witness ==
    /\ SentByA = {MOVIE_PREFIX \o <<"bo">> \o PLAY_WORD \o <<"fang">>}
    /\ \E i \in 1..Len(messages["B"]) :
          messages["B"][i].videoUrl = <<VIDEO_PARSER_URL>> \o PLAY_WORD

\* The assistant pattern, said without the regular expression: the prefix, then
\* white space, then a rest on one line; and the rest.
Question(content) == TrimStart(SubSeq(content, Len(AI_PREFIX) + 1, Len(content)))

MatchesAssistant(content) ==
    /\ StartsWith(content, AI_PREFIX)
    /\ \A i \in 1..Len(Question(content)) : Question(content)[i] \notin LineTerminators

\* C7: for a content that matches the assistant pattern one call is issued, with
\* the text after the prefix and the white space for the query, or with the default
\* phrase if that text is empty; a content that does not match issues none.
C7_AssistantQuery ==
    \A c \in SentByA :
        IF MatchesAssistant(c)
        THEN /\ Len(aiCalls["A"]) = 1
             /\ aiCalls["A"][1].query =
                    (IF Question(c) = <<>> THEN DEFAULT_QUERY ELSE Question(c))
        ELSE aiCalls["A"] = <<>>

\* the assistant command with white space and a question was sent
C7_Witness ==
    /\ SentByA = {AI_PREFIX \o <<" ", "\n", "x", "bo">>}
    /\ Len(aiCalls["A"]) = 1
    /\ aiCalls["A"][1].query = <<"x", "bo">>

\* C8: when the handler of an assistant call has published its bot message and
\* finished, whatever the outcome of the call, the busy flag is false.
C8_BusyClearedAfterReply ==
    \A t \in Tabs : last = Op("AiDone", t, <<"published">>) => ~isAiThinking[t]

\* a call that failed (no reply of the assistant) has just been answered
C8_Witness ==
    \E t \in Tabs :
        /\ last = Op("AiDone", t, <<"published">>)
        /\ messages[t][Len(messages[t])].senderId = <<"ai-bot">>
        /\ messages[t][Len(messages[t])].content = NETWORK_ERROR_REPLY

----
\* The topic channel: what the claims speak of.

\* the last step published an envelope from tab t: a USER_JOIN on a channel just
\* opened, or a HEARTBEAT or NEW_MESSAGE on the channel the tab had open
Announced(t) == last.tab = t /\ last.op \in {"Mount", "Rerender"}

Published(t) ==
    /\ last.tab = t
    /\ \/ last.op \in {"Heartbeat", "Send"}
       \/ last = Op("MovieFire", t, <<"published">>)
       \/ last = Op("AiDone", t, <<"published">>)

\* the envelope that tab t published in the step, as tab u got it
Got(u, t) ==
    /\ Len(inbox[u]') = Len(inbox[u]) + 1
    /\ inbox[u]'[Len(inbox[u]')].from = t
    /\ SubSeq(inbox[u]', 1, Len(inbox[u])) = inbox[u]

\* C9 as the specification has it: what a session publishes is also delivered to
\* the session itself.
C9_OwnEnvelopesReceived ==
    [][\A t \in Tabs : Published(t)' => Got(t, t)]_vars

\* C9, amended: what a session publishes is queued for every other session attached
\* to the topic and never for the session itself.
C9_DeliveredToOthersOnly ==
    [][\A t \in Tabs :
        /\ Published(t)' =>
            /\ inbox[t]' = inbox[t]
            /\ \A u \in Tabs \ {t} :
                  Listening(u, ChannelName(currentServer[t][1])) => Got(u, t)
        /\ Announced(t)' =>
            /\ inbox[t]' = <<>>
            /\ \A u \in Tabs \ {t} :
                  Listening(u, ChannelName(currentServer[t][1]')) => Got(u, t)]_vars

\* a session has just sent a message: the other session has it in its queue, and the
\* sender's queue holds nothing of its own
C9_Witness ==
    \E t \in Tabs, u \in Tabs :
        /\ t # u /\ last.op = "Send" /\ last.tab = t
        /\ inbox[u] # <<>>
        /\ inbox[u][Len(inbox[u])].from = t
        /\ inbox[u][Len(inbox[u])].type = "NEW_MESSAGE"
        /\ \A i \in 1..Len(inbox[t]) : inbox[t][i].from # t

\* how often a message of that id is in the transcript
CountId(msgs, id) == Cardinality({i \in 1..Len(msgs) : msgs[i].id = id})

MsgIds(msgs) == {msgs[i].id : i \in 1..Len(msgs)}

\* every NEW_MESSAGE published so far has been delivered
NoMessageInFlight ==
    \A t \in Tabs : \A i \in 1..Len(inbox[t]) : inbox[t][i].type # "NEW_MESSAGE"

\* C10: with both sessions attached since before the first message, whenever no
\* NEW_MESSAGE is in flight the two transcripts hold the same message ids, each as
\* often in one as in the other.
C10_TranscriptsConverge ==
    (\A t \in Tabs : Mounted(t)) /\ NoMessageInFlight =>
        \A id \in MsgIds(messages["A"]) \cup MsgIds(messages["B"]) :
            CountId(messages["A"], id) = CountId(messages["B"], id)

\* both have sent, a bot has answered, all of it was delivered, and the two
\* transcripts are in different orders
C10_Witness ==
    /\ \A t \in Tabs : Mounted(t) /\ sends[t] = 1
    /\ NoMessageInFlight
    /\ \E i \in 1..Len(messages["A"]) : messages["A"][i].isAi
    /\ \E i, j \in 1..Len(messages["A"]) :
          /\ i < j /\ Len(messages["B"]) >= j
          /\ messages["A"][i] = messages["B"][j]
          /\ messages["A"][j] = messages["B"][i]

----
\* Leaving the room: what the claims speak of.

\* the last step completed a bot reply of tab t after its ChatRoom was unmounted
CompletedAfterDetach(t) ==
    \/ last = Op("MovieFire", t, <<"discarded">>)
    \/ last = Op("AiDone", t, <<"discarded">>)

\* C11: a bot reply that completes after its session has detached is dropped
\* without a trace: the step queues no envelope for anyone and no exception
\* escapes the callback.
C11_LateReplyDiscarded ==
    [][\A t \in Tabs : CompletedAfterDetach(t)' =>
            /\ inbox' = inbox
            /\ faults' = faults]_vars

\* C12: once a session has detached, and until it attaches again, neither of its
\* loops is pending or runs, and its channel is closed: nothing is queued for it,
\* whatever the others publish.
C12_DetachStopsLoops ==
    [][\A t \in Tabs : ~Mounted(t)' =>
            /\ timers'[t].heartbeat = NoTimer
            /\ timers'[t].cleanup = NoTimer
            /\ inbox'[t] = <<>>
            /\ ~(last'.tab = t /\ last'.op \in {"Heartbeat", "Cleanup"})]_vars

\* a session has left for longer than a cleanup period, and the other one, still
\* in the room, has just published a heartbeat
C12_Witness ==
    \E t \in Tabs, u \in Tabs :
        /\ ~Mounted(t) /\ inst[t] > 0 /\ loginTimers[t] = <<>>
        /\ now > mountedAt[t] + CLEANUP_PERIOD
        /\ timers[t] = ClearIntervals(timers[t])
        /\ Mounted(u) /\ last = Op("Heartbeat", u, <<>>)
        /\ inbox[t] = <<>>

----
\* Servers: what the claims speak of.

\* tabs t and u both show a ChatRoom, of different servers
Apart(t, u) == Mounted(t) /\ Mounted(u) /\ currentServer[t][1] # currentServer[u][1]

\* the presence list of tab t has an entry for the user of tab u
Lists(t, u) ==
    \E i \in 1..Len(onlineUsers[t]) :
        /\ onlineUsers[t][i].id = Self(u).id
        /\ onlineUsers[t][i].nickname = Self(u).nickname

\* the transcript of tab t has a message of the user of tab u (told from t's own
\* by the id)
Quotes(t, u) ==
    /\ Self(t).id # Self(u).id
    /\ \E i \in 1..Len(messages[t]) : messages[t][i].senderId = <<"user", Self(u).id>>

\* C13, the part about envelopes alone: the topic of a server is the base name, an
\* underscore and the server id, and what a session publishes is queued for no
\* session of another server
C13_NoEnvelopeCrosses ==
    [][/\ \A i \in DOMAIN SERVER_LIST :
             ChannelName(SERVER_LIST[i]) = <<BROADCAST_CHANNEL_NAME, "_", SERVER_LIST[i]>>
       /\ \A t \in Tabs : Published(t)' \/ Announced(t)' =>
             \A u \in Tabs \ {t} : Apart(t, u)' => inbox'[u] = inbox[u]]_vars

\* C13: sessions of different servers are isolated: the topic is named after the
\* server, what one publishes is queued for no session of another server, and so
\* a session lists no user and shows no message of a session of another server.
C13_ServersIsolated ==
    [][/\ \A i \in DOMAIN SERVER_LIST :
             ChannelName(SERVER_LIST[i]) = <<BROADCAST_CHANNEL_NAME, "_", SERVER_LIST[i]>>
       /\ \A t \in Tabs : Published(t)' \/ Announced(t)' =>
             \A u \in Tabs \ {t} : Apart(t, u)' => inbox'[u] = inbox[u]
       /\ \A t \in Tabs : \A u \in Tabs \ {t} :
             Apart(t, u)' => ~Lists(t, u)' /\ ~Quotes(t, u)']_vars

\* C14: the login form turns down a nickname that an attached user of the topic,
\* who has published a heartbeat already, holds: a session whose user logged in
\* after that has another nickname than that user.
C14_NicknamesUnique ==
    \A t \in Tabs : \A u \in Tabs \ {t} :
        /\ Mounted(t) /\ Mounted(u) /\ currentServer[t] = currentServer[u]
        /\ Self(u).id >= mountedAt[t] + HEARTBEAT_PERIOD
        => Self(t).nickname # Self(u).nickname

----
\* The assistant: what the claims speak of.

Fallbacks == {API_ERROR_REPLY, EMPTY_REPLY, NETWORK_ERROR_REPLY}

\* the call did not come back with a reply of the assistant
Failed(o) == ~(o.fetch = "ok" /\ o.json = "content")

\* C15: whatever goes wrong with the call, sendMessageToAi returns one of its
\* fallback strings, and the handler that resumes in an attached session appends
\* and publishes a text message of the assistant bot with the returned string.
C15_FailureBecomesReply ==
    /\ \A o \in AiOutcomes : Failed(o) => SendMessageToAi(o) \in Fallbacks
    /\ [fetch |-> "notok", json |-> "throw"] \in AiOutcomes
    /\ \A t \in Tabs : last = Op("AiDone", t, <<"published">>) =>
          LET aiMessage == messages[t][Len(messages[t])] IN
            /\ aiMessage.senderId = <<"ai-bot">>
            /\ aiMessage.type = "TEXT"
            /\ aiMessage.content \in {SendMessageToAi(o) : o \in AiOutcomes}
            /\ faults[t] = 0
            /\ \A u \in Tabs \ {t} :
                  /\ inbox[u] # <<>>
                  /\ inbox[u][Len(inbox[u])] = Envelope("NEW_MESSAGE", aiMessage, t)

\* a call that the server refused has just been answered, and the fallback is on
\* its way to the other session
C15_Witness ==
    \E t \in Tabs : \E u \in Tabs \ {t} :
        /\ last = Op("AiDone", t, <<"published">>)
        /\ messages[t][Len(messages[t])].content = API_ERROR_REPLY
        /\ inbox[u] # <<>>
        /\ inbox[u][Len(inbox[u])].body.content = API_ERROR_REPLY

----
\* The transcript: what the claims speak of.

\* the last step was one in which tab t authored a message and published it
Authored(t) ==
    \/ last.op = "Send" /\ last.tab = t
    \/ last = Op("MovieFire", t, <<"published">>)
    \/ last = Op("AiDone", t, <<"published">>)

\* C16: a message a session authors gets into its own transcript once: the step
\* that authors it appends it and queues nothing for the session itself, and no
\* message the receive path appends was published by the session.
C16_AuthoredOnce ==
    [][\A t \in Tabs :
        /\ Authored(t)' =>
            /\ Len(messages'[t]) = Len(messages[t]) + 1
            /\ SubSeq(messages'[t], 1, Len(messages[t])) = messages[t]
            /\ inbox'[t] = inbox[t]
        /\ last'.op = "Deliver" /\ last'.tab = t => Head(inbox[t]).from # t]_vars

\* a session's own message has reached the other one, nothing is left in the
\* queues, and the session's transcript holds the message once
C16_Witness ==
    \E t \in Tabs : \E u \in Tabs \ {t} :
        /\ last.op = "Deliver" /\ last.tab = u
        /\ inbox[t] = <<>> /\ inbox[u] = <<>>
        /\ messages[u][Len(messages[u])].senderId = <<"user", Self(t).id>>
        /\ CountId(messages[t], messages[u][Len(messages[u])].id) = 1

----
\* The busy flag: what the claims speak of.

\* C17: while an assistant call of an attached session is in flight, its busy flag
\* is true.
C17_BusyWhileInFlight ==
    \A t \in Tabs : Mounted(t) /\ aiCalls[t] # <<>> => isAiThinking[t]

\* C18: if every assistant call settles in the end, a busy flag that is true
\* becomes false again; and it is never true with no call in flight.
C18_BusyReturnsToFalse ==
    /\ [](\A t \in Tabs : isAiThinking[t] => aiCalls[t] # <<>>)
    /\ \A t \in Tabs : isAiThinking[t] ~> ~isAiThinking[t]

\* two calls of one session are in flight, the flag is true
C18_Witness ==
    \E t \in Tabs : isAiThinking[t] /\ Len(aiCalls[t]) = 2

----
\* Presence of those who stay: what the claims speak of.

\* C19: a peer that is attached and listed is not removed by a cleanup tick: its
\* heartbeats, one every HEARTBEAT_PERIOD and all delivered, keep its entry fresh.
C19_NoFalseEviction ==
    [][\A t \in Tabs : last'.op = "Cleanup" /\ last'.tab = t =>
            \A u \in Tabs \ {t} :
                Mounted(u) /\ Self(u).id \in OnlineIds(t) => Self(u).id \in OnlineIds(t)']_vars

\* a cleanup tick has just left a peer in the list that announced itself longer
\* ago than STALE_AFTER and has been heartbeating since
C19_Witness ==
    \E t \in Tabs : \E u \in Tabs \ {t} :
        /\ last = Op("Cleanup", t, <<>>)
        /\ Mounted(u) /\ Self(u).id # Self(t).id
        /\ Self(u).id \in OnlineIds(t)
        /\ now - mountedAt[u] > STALE_AFTER
        /\ mountedAt[t] <= mountedAt[u]

\* C20: a USER_JOIN or HEARTBEAT of a user that was listed once and has been
\* evicted puts the user back at once, as a new entry at the end of the list with
\* lastSeen the time of receipt, just as a user never heard of would be put in.
C20_EvictedPeerReturns ==
    [][\A t \in Tabs :
        LET data == Head(inbox[t]) IN
        /\ last'.op = "Deliver" /\ last'.tab = t
        /\ data.type \in {"USER_JOIN", "HEARTBEAT"}
        /\ data.body.id \in DOMAIN lastHeard[t]
        /\ data.body.id \notin OnlineIds(t)
        => /\ onlineUsers'[t] = Append(onlineUsers[t], [data.body EXCEPT !.lastSeen = now])
           /\ last'.arg = <<"returned">>]_vars

\* the USER_JOIN of an evicted user has just put the user back
C20_Witness ==
    \E t \in Tabs :
        LET entry == onlineUsers[t][Len(onlineUsers[t])] IN
        /\ last = Op("Deliver", t, <<"returned">>)
        /\ entry.id \in PeerLogins
        /\ entry.lastSeen = now
        /\ now - entry.id > STALE_AFTER

----
\* The transcript in the course of a session: what the claims speak of.

\* the step from the current state to the next was made in the ChatRoom that tab t
\* shows, and is none of its (re)attachments
WithinSession(t) ==
    Mounted(t) /\ Mounted(t)' /\ ~(last'.tab = t /\ last'.op \in {"Mount", "Rerender"})

\* C21: while a session is attached its transcript only grows at the end, by one
\* message a step at most, and a NEW_MESSAGE received is appended as it is, whatever
\* the transcript holds.
C21_TranscriptAppendOnly ==
    [][\A t \in Tabs : WithinSession(t) =>
        /\ \/ messages'[t] = messages[t]
           \/ /\ Len(messages'[t]) = Len(messages[t]) + 1
              /\ SubSeq(messages'[t], 1, Len(messages[t])) = messages[t]
        /\ (last'.op = "Deliver" /\ last'.tab = t /\ Head(inbox[t]).type = "NEW_MESSAGE")
              => messages'[t] = Append(messages[t], Head(inbox[t]).body)]_vars

\* a received message has just been appended to a transcript that held a message
\* of the same id already, and both sessions have sent
C21_Witness ==
    \E t \in Tabs :
        /\ last = Op("Deliver", t, <<>>)
        /\ Len(messages[t]) >= 3
        /\ CountId(messages[t], messages[t][Len(messages[t])].id) = 2
        /\ \A u \in Tabs : sends[u] = 1

----
\* The clocks: what the claims speak of.

\* lastSeen values a sender might put into the user of its envelope
SenderClocks == {0, now + STALE_AFTER}

\* C22: the lastSeen stored on receipt of a USER_JOIN or HEARTBEAT is the time of
\* receipt, and the list after the receipt is the same whatever lastSeen the
\* envelope carries; a cleanup tick keeps a peer heard of iff the last receipt for
\* its id is less than STALE_AFTER ago.
C22_ReceiptClockOnly ==
    [][\A t \in Tabs :
        LET data == Head(inbox[t]) IN
        /\ (last'.op = "Deliver" /\ last'.tab = t /\ data.type \in {"USER_JOIN", "HEARTBEAT"})
            => /\ \E i \in 1..Len(onlineUsers'[t]) :
                     /\ onlineUsers'[t][i].id = data.body.id
                     /\ onlineUsers'[t][i].lastSeen = now
               /\ \A s \in SenderClocks :
                     onlineUsers'[t] = Upsert(onlineUsers[t], [data.body EXCEPT !.lastSeen = s], now)
        /\ (last'.op = "Cleanup" /\ last'.tab = t)
            => \A id \in (PeerIds(t) \cap DOMAIN lastHeard[t]) :
                  id \in OnlineIds(t)' <=> now - lastHeard[t][id] < STALE_AFTER]_vars

\* a USER_JOIN or HEARTBEAT has just refreshed a listed peer, long after the login
\* that its USER_JOIN carries as lastSeen, with another peer in the list
C22_Witness ==
    \E t \in Tabs :
        /\ last = Op("Deliver", t, <<>>)
        /\ Len(onlineUsers[t]) = 3
        /\ \E i \in 1..Len(onlineUsers[t]) :
              /\ onlineUsers[t][i].id \in PeerLogins
              /\ onlineUsers[t][i].id # Self(t).id
              /\ onlineUsers[t][i].lastSeen = now
              /\ now - onlineUsers[t][i].id > CLEANUP_PERIOD

----
\* Commands and replies: what the claims speak of.

RECURSIVE Bodies2(_)
\* the messages of the NEW_MESSAGE events of a queue, in order
Bodies2(q) ==
    IF q = <<>> THEN <<>>
    ELSE (IF Head(q).type = "NEW_MESSAGE" THEN <<Head(q).body>> ELSE <<>>) \o Bodies2(Tail(q))

\* what tab t has in its transcript or will have, in the order of receipt
Seen(t) == messages[t] \o Bodies2(inbox[t])

IsUserMsg(m) == Len(m.senderId) = 2 /\ m.senderId[1] = "user"

\* a user message that is a movie command with a target
IsMovieCmd(m) ==
    IsUserMsg(m) /\ StartsWith(m.content, MOVIE_PREFIX) /\ Target(m.content) # <<>>

\* a user message that is an assistant command
IsAiCmd(m) ==
    IsUserMsg(m) /\ ~StartsWith(m.content, MOVIE_PREFIX) /\ MatchesAssistant(m.content)

IsVideo(m) == m.senderId = <<"movie-bot">> /\ m.type = "VIDEO"

IsAiReply(m) == m.senderId = <<"ai-bot">> /\ m.type = "TEXT"

\* how many of the first k messages of a sequence are of a kind
CountKind(msgs, k, Kind(_)) == Cardinality({i \in 1..k : Kind(msgs[i])})

PendingMovies == Len(movieTimers["A"]) + Len(movieTimers["B"])
PendingCalls == Len(aiCalls["A"]) + Len(aiCalls["B"])

\* the last step sent a message that is no command
SentPlain(t) ==
    /\ last.op = "Send" /\ last.tab = t
    /\ ~StartsWith(last.arg, MOVIE_PREFIX) /\ ~MatchesAssistant(last.arg)

\* C23: every movie command with a target gets one video message, made
\* MOVIE_DELAY after the command with the parser address before the target, every
\* assistant command gets one text message of the assistant, and nothing else gets
\* any: the replies made and those still to come are as many as the commands, and
\* a message that is no command starts no bot and leaves the busy flag alone.
C23_RepliesPerCommand ==
    /\ [](\A t \in Tabs :
            LET seen == Seen(t)
                n == Len(seen)
            IN
            /\ CountKind(seen, n, IsVideo) + PendingMovies = CountKind(seen, n, IsMovieCmd)
            /\ CountKind(seen, n, IsAiReply) + PendingCalls = CountKind(seen, n, IsAiCmd)
            /\ \A j \in 1..n : IsVideo(seen[j]) =>
                  \E i \in 1..n :
                      /\ IsMovieCmd(seen[i])
                      /\ seen[j].timestamp = seen[i].timestamp + MOVIE_DELAY
                      /\ seen[j].videoUrl = <<VIDEO_PARSER_URL>> \o Target(seen[i].content))
    /\ [][\A t \in Tabs : SentPlain(t)' =>
              /\ isAiThinking' = isAiThinking
              /\ aiCalls' = aiCalls
              /\ movieTimers' = movieTimers]_vars

\* a movie command and an assistant command were sent, both bots have answered,
\* and a transcript holds the two commands and one reply to each
C23_Witness ==
    \E t \in Tabs :
        /\ PendingMovies = 0 /\ PendingCalls = 0 /\ inbox[t] = <<>>
        /\ Len(messages[t]) = 5
        /\ CountKind(messages[t], 5, IsMovieCmd) = 1
        /\ CountKind(messages[t], 5, IsVideo) = 1
        /\ CountKind(messages[t], 5, IsAiCmd) = 1
        /\ CountKind(messages[t], 5, IsAiReply) = 1

\* C24: in every transcript, the sender's own and, by the order of the envelopes,
\* the receiver's, and in what is queued behind it, a bot's reply stands after the
\* command it answers: a video message after the movie command made MOVIE_DELAY
\* before it, and among the first k messages never more replies than commands.
C24_ReplyAfterCommand ==
    \A t \in Tabs :
        LET seen == Seen(t) IN
        /\ \A j \in 1..Len(seen) : IsVideo(seen[j]) =>
              \E i \in 1..(j - 1) :
                  /\ IsMovieCmd(seen[i])
                  /\ seen[j].timestamp = seen[i].timestamp + MOVIE_DELAY
        /\ \A k \in 1..Len(seen) :
              /\ CountKind(seen, k, IsVideo) <= CountKind(seen, k, IsMovieCmd)
              /\ CountKind(seen, k, IsAiReply) <= CountKind(seen, k, IsAiCmd)

\* in the sender's transcript a message of the other session stands between an
\* assistant command and the reply to it
C24_Witness ==
    \E t \in Tabs :
        \E i \in 1..Len(messages[t]) :
            /\ IsAiCmd(messages[t][i])
            /\ messages[t][i].senderId = <<"user", Self(t).id>>
            /\ Len(messages[t]) = i + 2
            /\ IsUserMsg(messages[t][i + 1])
            /\ messages[t][i + 1].senderId # <<"user", Self(t).id>>
            /\ IsAiReply(messages[t][i + 2])
            /\ last = Op("AiDone", t, <<"published">>)

----
\* Message ids: what the claims speak of.

\* C25: two send events never make messages of the same id, so that no transcript
\* holds two different messages with one id.
C25_IdsUnique ==
    \A t \in Tabs : \A i \in 1..Len(messages[t]) : \A j \in 1..Len(messages[t]) :
        messages[t][i].id = messages[t][j].id => messages[t][i] = messages[t][j]

----
\* Other message events: what the claims speak of.

\* C26: the handling of a REQUEST_USERS event in an attached session takes the
\* event off the queue and does nothing else: the presence list, the transcript
\* and the busy flag stay as they are, nothing is posted, nothing is thrown.
C26_RequestUsersIgnored ==
    [][\A t \in Tabs :
        (last'.op = "Deliver" /\ last'.tab = t /\ Head(inbox[t]).type = "REQUEST_USERS") =>
            /\ onlineUsers' = onlineUsers
            /\ messages' = messages
            /\ isAiThinking' = isAiThinking
            /\ inbox' = [inbox EXCEPT ![t] = Tail(@)]
            /\ faults' = faults]_vars

\* a session that lists its peer and waits for the assistant has just handled a
\* REQUEST_USERS event
C26_Witness ==
    \E t \in Tabs :
        /\ last = Op("Deliver", t, <<"ignored">>)
        /\ isAiThinking[t]
        /\ Len(onlineUsers[t]) = 2
        /\ Len(messages[t]) >= 2

====
